---- MODULE Spec2Model ----
(***************************************************************************)
(* A model of the token parsers of ruststep (ISO-10303-21, table 2), of    *)
(* the constraint analyzer of espr (Constraints::new) and of espr's        *)
(* Schema::legalize.                                                       *)
(*                                                                         *)
(* Text is a sequence of one-character strings.  A parser is an operator   *)
(* from the input text to a parse result, which is one of                  *)
(*   Ok(rest, value)   the nom Ok((rest, value))                           *)
(*   Error             the recoverable nom::Err::Error                     *)
(*   Failure(ctx, at)  the unrecoverable nom::Err::Failure                 *)
(*   Panic             the closure passed to map() panicked (expect)       *)
(***************************************************************************)
EXTENDS Integers, Sequences, FiniteSets, TLC

VARIABLES
    input,        \* the text handed to a token parser
    op,           \* the operation that has been applied ("none" before)
    result,       \* what the operation returned
    st,           \* the SyntaxTree handed to Constraints::new
    ns,           \* the Namespace handed to Constraints::new
    schema,       \* the ast::schema::Schema handed to Schema::legalize
    query,        \* the Path last asked of Constraints::is_supertype
    exchange,     \* exchange.data[0].entities of the dictionary consumer
    dictionary_data, \* its id-keyed tables
    dictionary,   \* its Dictionary: the properties pushed so far
    visited,      \* the keys its second loop has been through
    next_entity,  \* the entity its first loop comes to next
    pc            \* the loop it is in ("collect", "resolve"), "done" or "panic"

\* The variables of the dictionary consumer.
dictVars == <<exchange, dictionary_data, dictionary, visited, next_entity, pc>>

vars == <<input, op, result, st, ns, schema, query,
          exchange, dictionary_data, dictionary, visited, next_entity, pc>>

----------------------------------------------------------------------------
(* Bounds of the model *)

MaxZeros == 2      \* leading zeros put before an instance name
MaxTail == 2       \* digits appended to a prefix of a boundary number
MaxStrLen == 4     \* length of the strings that are escaped and re-parsed
MaxTextLen == 4    \* length of the arbitrary texts handed to the parsers
MaxOneOf == 3      \* number of names in a ONEOF
MaxDecls == 3      \* number of declarations of the schema that is legalized
MaxPDets == 2      \* number of NON_DEPENDENT_P_DET records of a data section

----------------------------------------------------------------------------
(* Text helpers *)

Take(s, n) == SubSeq(s, 1, n)
Drop(s, n) == SubSeq(s, n + 1, Len(s))

RECURSIVE SpanLen(_, _)
\* The length of the longest prefix of s made of characters of cs.
SpanLen(s, cs) ==
    IF s = <<>> \/ Head(s) \notin cs THEN 0 ELSE 1 + SpanLen(Tail(s), cs)

RECURSIVE SpanLenNot(_, _)
\* The length of the longest prefix of s in which c does not occur.
SpanLenNot(s, c) ==
    IF s = <<>> \/ Head(s) = c THEN 0 ELSE 1 + SpanLenNot(Tail(s), c)

RECURSIVE Repeat(_, _)
Repeat(c, n) == IF n = 0 THEN <<>> ELSE <<c>> \o Repeat(c, n - 1)

RECURSIVE TextsUpTo(_, _)
\* Every text over the alphabet cs of length at most n.
TextsUpTo(cs, n) ==
    IF n = 0 THEN {<<>>}
    ELSE LET shorter == TextsUpTo(cs, n - 1)
         IN  shorter \cup {<<c>> \o t : c \in cs, t \in {u \in shorter : Len(u) = n - 1}}

Contains(s, c) == \E i \in 1..Len(s) : s[i] = c

DigitSeq == <<"0", "1", "2", "3", "4", "5", "6", "7", "8", "9">>
Digits == {DigitSeq[i] : i \in 1..10}
DigitVal(c) == (CHOOSE i \in 1..10 : DigitSeq[i] = c) - 1
Spaces == {" ", "\n"}
Uppers == {"A", "E", "Z"}
Lowers == {"a", "z"}

----------------------------------------------------------------------------
(* Parse results *)

NoResult == [tag |-> "None", rest |-> <<>>, value |-> <<>>, ctx |-> ""]
Ok(rest, value) == [tag |-> "Ok", rest |-> rest, value |-> value, ctx |-> ""]
Error == [tag |-> "Error", rest |-> <<>>, value |-> <<>>, ctx |-> ""]
Failure(ctx, at) == [tag |-> "Failure", rest |-> at, value |-> <<>>, ctx |-> ctx]
Panic == [tag |-> "Panic", rest |-> <<>>, value |-> <<>>, ctx |-> ""]

IsOk(r) == r.tag = "Ok"

----------------------------------------------------------------------------
(* nom combinators *)

\* char(c): the next character is c.
char(c, in) ==
    IF in # <<>> /\ Head(in) = c THEN Ok(Tail(in), c) ELSE Error

\* digit1: one or more ASCII digits.
digit1(in) ==
    LET n == SpanLen(in, Digits)
    IN  IF n = 0 THEN Error ELSE Ok(Drop(in, n), Take(in, n))

\* digit0: zero or more ASCII digits.
digit0(in) ==
    LET n == SpanLen(in, Digits) IN Ok(Drop(in, n), Take(in, n))

\* multispace0: zero or more spaces, tabs, carriage returns and line feeds.
multispace0(in) ==
    LET n == SpanLen(in, Spaces) IN Ok(Drop(in, n), Take(in, n))

\* sign = `+` | `-`
sign(in) ==
    IF in # <<>> /\ Head(in) \in {"+", "-"} THEN Ok(Tail(in), Head(in)) ELSE Error

\* opt(sign): the value is <<>> for None and <<c>> for Some(c).
opt_sign(in) ==
    LET r == sign(in) IN IF IsOk(r) THEN Ok(r.rest, <<r.value>>) ELSE Ok(in, <<>>)

----------------------------------------------------------------------------
(* str::parse to a fixed-width integer.  The value is kept in its machine   *)
(* width as four 16-bit limbs, least significant first; the parse is the    *)
(* digit-by-digit checked_mul(10), checked_add(digit) of the standard       *)
(* library, which reports an overflow as Err.                               *)

LimbBase == 2 ^ 16
ZeroLimbs == <<0, 0, 0, 0>>

RECURSIVE MulAddLimbs(_, _)
\* limbs * 10 + carry, with the carry out of the top limb appended.
MulAddLimbs(limbs, carry) ==
    IF limbs = <<>> THEN <<carry>>
    ELSE LET t == Head(limbs) * 10 + carry
         IN  <<t % LimbBase>> \o MulAddLimbs(Tail(limbs), t \div LimbBase)

RECURSIVE ParseLimbs(_, _, _)
\* top: the first value the top limb cannot hold (2^16 unsigned, 2^15 signed).
\* The result is the four limbs, or <<>> on overflow.
ParseLimbs(digits, acc, top) ==
    IF digits = <<>> THEN acc
    ELSE LET m == MulAddLimbs(acc, DigitVal(Head(digits)))
         IN  IF m[5] # 0 \/ m[4] >= top THEN <<>>
             ELSE ParseLimbs(Tail(digits), Take(m, 4), top)

RECURSIVE WrappingParseLimbs(_, _)
\* The parse with wrapping_mul and wrapping_add: the carry is dropped.
WrappingParseLimbs(digits, acc) ==
    IF digits = <<>> THEN acc
    ELSE WrappingParseLimbs(Tail(digits), Take(MulAddLimbs(acc, DigitVal(Head(digits))), 4))

\* ParseU64 without the overflow check.
ParseU64Wrapping(digits) == WrappingParseLimbs(digits, ZeroLimbs)

\* name.parse::<u64>() of a non-empty digit string: <<>> stands for Err.
ParseU64(digits) == ParseLimbs(digits, ZeroLimbs, 2 ^ 16)

\* numbers.parse::<i64>() of a non-empty digit string: <<>> stands for Err.
ParseI64(digits) == ParseLimbs(digits, ZeroLimbs, 2 ^ 15)

----------------------------------------------------------------------------
(* ruststep::parser::token *)

\* instance_name taking a name of more digits than u64::MAX has for an overflow.
instance_name_by_length(sigil, in) ==
    LET s == char(sigil, in)
        d == IF IsOk(s) THEN digit1(s.rest) ELSE Error
    IN  IF ~IsOk(d) THEN Error
        ELSE LET name == IF Len(d.value) > 20 THEN <<>> ELSE ParseU64(d.value)
             IN  IF name # <<>> THEN Ok(d.rest, name)
                 ELSE Failure("u64-overflow", d.rest)

\* The body shared by entity_instance_name and value_instance_name.
instance_name(sigil, in) ==
    LET s == char(sigil, in)
        d == IF IsOk(s) THEN digit1(s.rest) ELSE Error
    IN  IF ~IsOk(d) THEN Error
        ELSE LET name == ParseU64(d.value)
             IN  IF name # <<>> THEN Ok(d.rest, name)
                 ELSE Failure("u64-overflow", d.rest)

\* entity_instance_name = `#` ( digit ) { digit } .
entity_instance_name(in) == instance_name("#", in)

\* value_instance_name = `@` ( digit ) { digit } .
value_instance_name(in) == instance_name("@", in)

\* basic::upper, basic::lower and basic::digit: one character of the class.
upper(in) == IF in # <<>> /\ Head(in) \in Uppers THEN Ok(Tail(in), Head(in)) ELSE Error
lower(in) == IF in # <<>> /\ Head(in) \in Lowers THEN Ok(Tail(in), Head(in)) ELSE Error
digit(in) == IF in # <<>> /\ Head(in) \in Digits THEN Ok(Tail(in), Head(in)) ELSE Error

\* standard_keyword whose tail is that of tag_name.
standard_keyword_with_lower(in) ==
    LET first == upper(in)
        n == IF IsOk(first) THEN SpanLen(first.rest, Uppers \cup Lowers \cup Digits) ELSE 0
    IN  IF ~IsOk(first) THEN Error
        ELSE Ok(Drop(first.rest, n), <<first.value>> \o Take(first.rest, n))

\* standard_keyword = upper { upper | digit } .
standard_keyword(in) ==
    LET first == upper(in)
        n == IF IsOk(first) THEN SpanLen(first.rest, Uppers \cup Digits) ELSE 0
    IN  IF ~IsOk(first) THEN Error
        ELSE Ok(Drop(first.rest, n), <<first.value>> \o Take(first.rest, n))

\* tag_name = ( upper | lower ) { upper | lower | digit } .
tag_name(in) ==
    LET u == upper(in)
        first == IF IsOk(u) THEN u ELSE lower(in)
        n == IF IsOk(first) THEN SpanLen(first.rest, Uppers \cup Lowers \cup Digits) ELSE 0
    IN  IF ~IsOk(first) THEN Error
        ELSE Ok(Drop(first.rest, n), <<first.value>> \o Take(first.rest, n))

\* The body shared by constant_entity_name and constant_value_name.
constant_name(sigil, in) ==
    LET s == char(sigil, in)
    IN  IF IsOk(s) THEN standard_keyword(s.rest) ELSE Error

\* constant_entity_name = `#` ( upper ) { upper | digit } .
constant_entity_name(in) == constant_name("#", in)

\* constant_value_name = `@` ( upper ) { upper | digit } .
constant_value_name(in) == constant_name("@", in)

\* Name::Entity(u64), Name::Value(u64), Name::ConstantEntity(String) and
\* Name::ConstantValue(String).
Name(variant, value) == [variant |-> variant, value |-> value]

\* parser.map(Name::variant)
MapName(r, variant) == IF IsOk(r) THEN Ok(r.rest, Name(variant, r.value)) ELSE r

\* rhs_occurrence_name: alt takes the first parser that returns no
\* recoverable error, so a Failure ends it.
rhs_occurrence_name(in) ==
    LET e == MapName(entity_instance_name(in), "Entity")
        v == MapName(value_instance_name(in), "Value")
        ce == MapName(constant_entity_name(in), "ConstantEntity")
        cv == MapName(constant_value_name(in), "ConstantValue")
    IN  IF e.tag # "Error" THEN e
        ELSE IF v.tag # "Error" THEN v
        ELSE IF ce.tag # "Error" THEN ce
        ELSE cv

\* lhs_occurrence_name that takes the constant names as well.
lhs_occurrence_name_with_constants(in) == rhs_occurrence_name(in)

\* lhs_occurrence_name = ( entity_instance_name | value_instance_name ) .
lhs_occurrence_name(in) ==
    LET e == MapName(entity_instance_name(in), "Entity")
        v == MapName(value_instance_name(in), "Value")
    IN  IF e.tag # "Error" THEN e ELSE v

\* many0(escaped_char.or(normal_char)): `''` gives one apostrophe, any other
\* character but the apostrophe gives itself; stops where neither applies.
RECURSIVE string_content(_)
string_content(in) ==
    IF Len(in) >= 2 /\ in[1] = "'" /\ in[2] = "'"
    THEN LET r == string_content(Drop(in, 2)) IN Ok(r.rest, <<"'">> \o r.value)
    ELSE IF in # <<>> /\ in[1] # "'"
    THEN LET r == string_content(Tail(in)) IN Ok(r.rest, <<in[1]>> \o r.value)
    ELSE Ok(in, <<>>)

\* many0(none_of("'")): a string body in which `''` is no escape.
plain_content(in) ==
    LET n == SpanLenNot(in, "'") IN Ok(Drop(in, n), Take(in, n))

\* string that takes the body with many0(none_of("'")), without the escape.
string_unescaped(in) ==
    LET a == char("'", in)
        b == IF IsOk(a) THEN plain_content(a.rest) ELSE Error
        c == IF IsOk(b) THEN char("'", b.rest) ELSE Error
    IN  IF IsOk(c) THEN Ok(c.rest, b.value) ELSE Error

\* string = `'` { ... | apostrophe apostrophe | ... } `'` .
string(in) ==
    LET a == char("'", in)
        b == IF IsOk(a) THEN string_content(a.rest) ELSE Error
        c == IF IsOk(b) THEN char("'", b.rest) ELSE Error
    IN  IF IsOk(c) THEN Ok(c.rest, b.value) ELSE Error

\* espr-runtime's string: tuple((char('\''), many0(none_of("'")), char('\''))).
runtime_string(in) ==
    LET a == char("'", in)
        b == IF IsOk(a) THEN plain_content(a.rest) ELSE Error
        c == IF IsOk(b) THEN char("'", b.rest) ELSE Error
    IN  IF IsOk(c) THEN Ok(c.rest, b.value) ELSE Error

\* The closure of integer and exponent: the digits to i64 (expect panics on
\* an overflow), negated after `-`.  The value is sign and magnitude.
signed_i64(sg, digits, rest) ==
    LET num == ParseI64(digits)
    IN  IF num = <<>> THEN Panic
        ELSE Ok(rest, [neg |-> (sg = <<"-">>), mag |-> num])

\* integer returning an error when a `.` follows the digits.
integer_rejecting_dot(in) ==
    LET s == opt_sign(in)
        w == multispace0(s.rest)
        d == digit1(w.rest)
    IN  IF ~IsOk(d) \/ (d.rest # <<>> /\ Head(d.rest) = ".") THEN Error
        ELSE signed_i64(s.value, d.value, d.rest)

\* integer = [ sign ] digit { digit } .
integer(in) ==
    LET s == opt_sign(in)
        w == multispace0(s.rest)
        d == digit1(w.rest)
    IN  IF ~IsOk(d) THEN Error ELSE signed_i64(s.value, d.value, d.rest)

\* `E` [ sign ] digit { digit } .
exponent(in) ==
    LET e == char("E", in)
        w1 == IF IsOk(e) THEN multispace0(e.rest) ELSE Error
        s == IF IsOk(w1) THEN opt_sign(w1.rest) ELSE Error
        w2 == IF IsOk(s) THEN multispace0(s.rest) ELSE Error
        d == IF IsOk(w2) THEN digit1(w2.rest) ELSE Error
    IN  IF ~IsOk(d) THEN Error ELSE signed_i64(s.value, d.value, d.rest)

\* opt(exponent): None is the exponent 0 (exp.unwrap_or(0)).
opt_exponent(in) ==
    LET r == exponent(in)
    IN  IF r.tag = "Error" THEN Ok(in, [neg |-> FALSE, mag |-> ZeroLimbs]) ELSE r

\* The closure of real: the f64 nearest to integral.fractional e exp, kept
\* as the decimal it is read from.
real_value(sg, integral, fractional, exp) ==
    [neg |-> (sg = <<"-">>), integral |-> integral, fractional |-> fractional, exp |-> exp]

\* real whose `.` is optional.
real_optional_dot(in) ==
    LET s == opt_sign(in)
        w == multispace0(s.rest)
        i == digit1(w.rest)
        p == IF IsOk(i) THEN char(".", i.rest) ELSE Error
        q == IF IsOk(p) THEN p.rest ELSE IF IsOk(i) THEN i.rest ELSE <<>>
        f == IF IsOk(i) THEN digit0(q) ELSE Error
        e == IF IsOk(f) THEN opt_exponent(f.rest) ELSE Error
    IN  IF IsOk(e) THEN Ok(e.rest, real_value(s.value, i.value, f.value, e.value))
        ELSE IF e.tag = "Panic" THEN Panic ELSE Error

\* real = [ sign ] digit { digit } `.` { digit } [ `E` [ sign ] digit { digit } ] .
real(in) ==
    LET s == opt_sign(in)
        w == multispace0(s.rest)
        i == digit1(w.rest)
        p == IF IsOk(i) THEN char(".", i.rest) ELSE Error
        f == IF IsOk(p) THEN digit0(p.rest) ELSE Error
        e == IF IsOk(f) THEN opt_exponent(f.rest) ELSE Error
    IN  IF IsOk(e) THEN Ok(e.rest, real_value(s.value, i.value, f.value, e.value))
        ELSE IF e.tag = "Panic" THEN Panic ELSE Error

----------------------------------------------------------------------------
(* espr_runtime::parser::token: real, through nom::number::complete::double *)

\* The builds of nom that have Parser::map: in 6.x and from 7.1 on, double
\* recognizes the text of a float and hands it to str::parse::<f64>; in 7.0
\* it reads the parts of the float itself, the exponent as an i32.
NomBuilds == {"recognize_float", "recognize_float_parts"}

\* The exponent fits the i32 that recognize_float_parts reads it into.
FitsI32(neg, digits) ==
    LET v == ParseI64(digits)
    IN  /\ v # <<>> /\ v[3] = 0 /\ v[4] = 0
        /\ v[2] < 2 ^ 15 \/ (neg /\ v[2] = 2 ^ 15 /\ v[1] = 0)

\* The f64 read from the parts of a float, kept as the decimal it is read
\* from.
double_value(neg, integral, fractional, eneg, edigits) ==
    [neg |-> neg, integral |-> integral, fractional |-> fractional,
     exp |-> [neg |-> eneg, digits |-> edigits]]

\* The exponent of a float: opt(tuple((one of "eE", opt(sign), cut(digit1)))).
double_exponent(build, in) ==
    IF in = <<>> \/ Head(in) \notin {"e", "E"} THEN Ok(in, [neg |-> FALSE, digits |-> <<>>])
    ELSE LET s == opt_sign(Tail(in))
             d == digit1(s.rest)
         IN  IF ~IsOk(d) THEN Failure("Digit", s.rest)
             ELSE IF build = "recognize_float_parts" /\ ~FitsI32(s.value = <<"-">>, d.value)
             THEN Failure("Digit", s.rest)
             ELSE Ok(d.rest, [neg |-> (s.value = <<"-">>), digits |-> d.value])

\* nom::number::complete::double on text without nan, inf or infinity:
\* [sign] ( digit1 [ `.` [digit1] ] | `.` digit1 ) [ exponent ].
double(build, in) ==
    LET s == opt_sign(in)
        i == digit0(s.rest)
        p == char(".", i.rest)
        f == IF IsOk(p) THEN digit0(p.rest) ELSE Ok(i.rest, <<>>)
        e == double_exponent(build, f.rest)
    IN  IF i.value = <<>> /\ f.value = <<>> THEN Error
        ELSE IF ~IsOk(e) THEN e
        ELSE Ok(e.rest, double_value(s.value = <<"-">>, i.value, f.value,
                                     e.value.neg, e.value.digits))

\* real = [ sign ] digit { digit } `.` { digit } [ `E` [ sign ] digit { digit } ] .
runtime_real(build, in) ==
    LET s == opt_sign(in)
        w == multispace0(s.rest)
        d == double(build, w.rest)
    IN  IF ~IsOk(d) THEN d
        ELSE Ok(d.rest, IF s.value = <<"-">>
                        THEN [d.value EXCEPT !.neg = ~d.value.neg]
                        ELSE d.value)

----------------------------------------------------------------------------
(* espr: scopes, paths, the syntax tree and the namespace *)

\* Scope::root()
RootScope == <<>>

\* Scope::schema(name): the scope of the declarations of a schema.
SchemaScope(root, name) == Append(root, <<"Schema", name>>)

\* A path that forgets which kind of declaration it names.
PathWithoutKind(scope, ty, name) == [scope |-> scope, ty |-> "", name |-> name]

\* Path::new(scope, ty, name)
Path(scope, ty, name) == [scope |-> scope, ty |-> ty, name |-> name]

\* Supertype expressions: a tree over entity names.
Leaf(name) == [tag |-> "Leaf", name |-> name, children |-> <<>>]
OneOf(children) == [tag |-> "OneOf", name |-> "", children |-> children]
And(lhs, rhs) == [tag |-> "And", name |-> "", children |-> <<lhs, rhs>>]
AndOr(lhs, rhs) == [tag |-> "AndOr", name |-> "", children |-> <<lhs, rhs>>]

\* Option<ast::Constraint>, with expr = <<>> where the variant has none.
NoConstraint == [tag |-> "None", expr |-> <<>>]
AbstractEntity == [tag |-> "AbstractEntity", expr |-> <<>>]
AbstractSuperType(expr) == [tag |-> "AbstractSuperType", expr |-> expr]
SuperTypeRule(expr) == [tag |-> "SuperTypeRule", expr |-> expr]

\* An entity of the syntax tree: its name, its constraint and the names of
\* its SUBTYPE OF list.
AstEntity(name, constraint, subtype_of) ==
    [name |-> name, constraint |-> constraint, subtype_of |-> subtype_of]

AstSchema(name, entities) == [name |-> name, entities |-> entities]

RECURSIVE Flatten(_)
\* The concatenation of a sequence of sequences.
Flatten(ss) == IF ss = <<>> THEN <<>> ELSE Head(ss) \o Flatten(Tail(ss))

\* The entities of every schema with the scope of their schema, in the order
\* of `for schema in &st.schemas { for entity in &schema.entities`.
EntitiesOf(tree) ==
    Flatten([i \in 1..Len(tree) |->
        [j \in 1..Len(tree[i].entities) |->
            [scope |-> SchemaScope(RootScope, tree[i].name),
             entity |-> tree[i].entities[j]]]])

\* Namespace::new: every declaration with its Path, in a flat vector.
NamespaceNew(tree) ==
    LET es == EntitiesOf(tree)
    IN  [i \in 1..Len(es) |->
            [path |-> Path(es[i].scope, "Entity", es[i].entity.name), ast |-> es[i].entity]]

\* The index of a Path in the namespace, 0 when it has none.
IndexOf(n, path) ==
    IF \E i \in 1..Len(n) : n[i].path = path
    THEN CHOOSE i \in 1..Len(n) : n[i].path = path
    ELSE 0

RECURSIVE Resolve(_, _, _)
\* Namespace::resolve: the declaration called name in the scope or, failing
\* that, in the scopes around it; 0 when there is none.
Resolve(n, scope, name) ==
    LET i == IndexOf(n, Path(scope, "Entity", name))
        t == IndexOf(n, Path(scope, "Type", name))
    IN  IF i # 0 THEN i
        ELSE IF t # 0 THEN t
        ELSE IF scope = <<>> THEN 0
        ELSE Resolve(n, Take(scope, Len(scope) - 1), name)

\* SemanticError for a name that resolves to nothing.
UnresolvedName(name, scope) == [kind |-> "UnresolvedName", name |-> name, scope |-> scope]

----------------------------------------------------------------------------
(* espr: Instantiables::from_expr, the expansion of a supertype expression  *)
(* into bundles of declaration indices                                      *)

Parts(parts) == [ok |-> TRUE, parts |-> parts, err |-> <<>>]
NoParts(err) == [ok |-> FALSE, parts |-> <<>>, err |-> err]

\* Every bundle of a concatenated with every bundle of b, a's bundle being
\* the major order.
Product(a, b) ==
    [k \in 1..(Len(a) * Len(b)) |->
        a[((k - 1) \div Len(b)) + 1] \o b[((k - 1) % Len(b)) + 1]]

RECURSIVE from_expr(_, _, _)
RECURSIVE from_exprs(_, _, _)

\* The bundles of each expression of a list, one after the other.
from_exprs(n, scope, exprs) ==
    IF exprs = <<>> THEN Parts(<<>>)
    ELSE LET h == from_expr(n, scope, Head(exprs))
         IN  IF ~h.ok THEN h
             ELSE LET t == from_exprs(n, scope, Tail(exprs))
                  IN  IF ~t.ok THEN t ELSE Parts(h.parts \o t.parts)

from_expr(n, scope, expr) ==
    IF expr.tag = "Leaf"
    THEN LET i == Resolve(n, scope, expr.name)
         IN  IF i = 0 THEN NoParts(UnresolvedName(expr.name, scope))
             ELSE Parts(<< <<i>> >>)
    ELSE IF expr.tag = "OneOf" THEN from_exprs(n, scope, expr.children)
    ELSE LET a == from_expr(n, scope, expr.children[1])
             b == IF a.ok THEN from_expr(n, scope, expr.children[2]) ELSE a
         IN  IF ~b.ok THEN b
             ELSE IF expr.tag = "And" THEN Parts(Product(a.parts, b.parts))
             ELSE Parts(a.parts \o b.parts \o Product(a.parts, b.parts))

----------------------------------------------------------------------------
(* espr: Constraints *)

\* The result of Constraints::new and of Schema::legalize.
Err(e) == [tag |-> "Err", rest |-> <<>>, value |-> e, ctx |-> ""]

\* The entities that Constraints::new turns into an entry.
IsSuperTypeRule(x) == x.entity.constraint.tag = "SuperTypeRule"

\* The entities that carry any SUPERTYPE OF expression, abstract or not.
HasSuperTypeExpr(x) == x.entity.constraint.expr # <<>>

\* The bundles of one entity, with every index replaced by the Path that the
\* namespace has at it, reading the bundles from the last to the first.
IndicesToPathsReversed(n, parts) ==
    [b \in 1..Len(parts) |->
        [k \in 1..Len(parts[Len(parts) + 1 - b]) |-> n[parts[Len(parts) + 1 - b][k]].path]]

\* ... with the indices of each bundle read from the last to the first.
IndicesToPathsInnerReversed(n, parts) ==
    [b \in 1..Len(parts) |->
        [k \in 1..Len(parts[b]) |-> n[parts[b][Len(parts[b]) + 1 - k]].path]]

\* ... without the bundles that repeat an earlier bundle.
IndicesToPathsDeduped(n, parts) ==
    LET first == SelectSeq([b \in 1..Len(parts) |-> b],
                           LAMBDA b : \A c \in 1..(b - 1) : parts[c] # parts[b])
    IN  [b \in 1..Len(first) |->
            [k \in 1..Len(parts[first[b]]) |-> n[parts[first[b]][k]].path]]

\* The bundles of one entity, with every index replaced by the Path that the
\* namespace has at it.
IndicesToPaths(n, parts) ==
    [b \in 1..Len(parts) |-> [k \in 1..Len(parts[b]) |-> n[parts[b][k]].path]]

\* collect() into a HashMap: a later pair replaces an earlier one of its key.
CollectMap(pairs) ==
    [p \in {pairs[i][1] : i \in 1..Len(pairs)} |->
        pairs[CHOOSE i \in 1..Len(pairs) :
                /\ pairs[i][1] = p
                /\ \A j \in (i + 1)..Len(pairs) : pairs[j][1] # p][2]]

\* The body of Constraints::new for the entities it selected: the first error
\* of from_expr, or the table of their bundles.
Instantiate(n, rules) ==
    LET its == [i \in 1..Len(rules) |->
                    from_expr(n, rules[i].scope, rules[i].entity.constraint.expr)]
        bad == {i \in 1..Len(rules) : ~its[i].ok}
    IN  IF bad # {}
        THEN Err(its[CHOOSE i \in bad : \A j \in bad : i <= j].err)
        ELSE Ok(<<>>, CollectMap(
                [i \in 1..Len(rules) |->
                    <<Path(rules[i].scope, "Entity", rules[i].entity.name),
                      IndicesToPaths(n, its[i].parts)>>]))

\* Constraints::new making an entry of ABSTRACT SUPERTYPE OF (expr) as well.
ConstraintsNewWithAbstract(n, tree) ==
    Instantiate(n, SelectSeq(EntitiesOf(tree), HasSuperTypeExpr))

\* Constraints::new
ConstraintsNew(n, tree) ==
    Instantiate(n, SelectSeq(EntitiesOf(tree), IsSuperTypeRule))

\* Constraints::is_supertype
is_supertype(instantiables, path) == path \in DOMAIN instantiables

----------------------------------------------------------------------------
(* espr: Schema::legalize *)

\* A declaration (ENTITY or TYPE) of the syntax tree: its name, the place it
\* has among the declarations of the source text, the name of the type its
\* attribute (or underlying type) refers to ("" when that is the simple type
\* REAL), and the bounds of the LIST around it (NoList when there is none).
AstDecl(name, pos, ref, list) == [name |-> name, pos |-> pos, ref |-> ref, list |-> list]

\* LIST [lower:upper] OF; an upper bound of ? is None, written <<>>.
NoList == <<>>
ListBounds(lo, hi) == [lower |-> lo, upper |-> hi]

\* TypeRef, the legalized type of an attribute.
SimpleType(name) == [tag |-> "Simple", name |-> name]
EntityRef(path) == [tag |-> "Entity", path |-> path]
NamedRef(path) == [tag |-> "Named", path |-> path]
ListOf(lo, hi, item) == [tag |-> "List", lower |-> lo, upper |-> hi, item |-> item]

\* Entity::legalize and TypeDecl::legalize: the reference is resolved through
\* the namespace, the containers around it are legalized recursively, and a
\* name that resolves to nothing is the SemanticError.
DeclLegalize(n, here, decl) ==
    LET i == IF decl.ref = "" THEN 0 ELSE Resolve(n, here, decl.ref)
        item == IF decl.ref = "" THEN SimpleType("REAL")
                ELSE IF n[i].path.ty = "Entity" THEN EntityRef(n[i].path)
                ELSE NamedRef(n[i].path)
        ty == IF decl.list = NoList THEN item
              ELSE ListOf(decl.list.lower, decl.list.upper, item)
    IN  IF decl.ref # "" /\ i = 0 THEN Err(UnresolvedName(decl.ref, here))
        ELSE Ok(<<>>, [name |-> decl.name, pos |-> decl.pos, ty |-> ty])

EntityLegalize(n, here, entity) == DeclLegalize(n, here, entity)
TypeDeclLegalize(n, here, type) == DeclLegalize(n, here, type)

\* iter().map(f).collect::<Result<Vec<_>, _>>(): the values, or the first Err.
CollectResults(rs) ==
    LET bad == {i \in 1..Len(rs) : ~IsOk(rs[i])}
    IN  IF bad # {} THEN rs[CHOOSE i \in bad : \A j \in bad : i <= j]
        ELSE Ok(<<>>, [i \in 1..Len(rs) |-> rs[i].value])

\* A legalizer that, when a type declaration fails, returns what it has
\* legalized so far.
SchemaLegalizePartial(n, scope, sch) ==
    LET name == sch.name
        here == Append(scope, <<"Schema", name>>)
        entities == CollectResults([i \in 1..Len(sch.entities) |->
                        EntityLegalize(n, here, sch.entities[i])])
    IN  IF ~IsOk(entities) THEN entities
        ELSE Ok(<<>>, [name |-> name, entities |-> entities.value, types |-> <<>>])

\* Schema::legalize
SchemaLegalize(n, scope, sch) ==
    LET name == sch.name
        here == Append(scope, <<"Schema", name>>)
        entities == CollectResults([i \in 1..Len(sch.entities) |->
                        EntityLegalize(n, here, sch.entities[i])])
        types == CollectResults([i \in 1..Len(sch.types) |->
                        TypeDeclLegalize(n, here, sch.types[i])])
    IN  IF ~IsOk(entities) THEN entities
        ELSE IF ~IsOk(types) THEN types
        ELSE Ok(<<>>, [name |-> name, entities |-> entities.value, types |-> types.value])

----------------------------------------------------------------------------
(* The inputs *)

\* u64::MAX, 18446744073709551615
MaxU64Dec ==
    <<"1", "8", "4", "4", "6", "7", "4", "4", "0", "7",
      "3", "7", "0", "9", "5", "5", "1", "6", "1", "5">>

TailDigits == {"0", "5", "6", "9"}

\* A sigil, some zeros, a prefix of u64::MAX, some more digits, and
\* possibly a character that ends the name.
NameInputs ==
    { <<sg>> \o Repeat("0", z) \o Take(MaxU64Dec, k) \o t \o e :
        sg \in {"#", "@"}, z \in 0..MaxZeros, k \in 0..Len(MaxU64Dec),
        t \in TextsUpTo(TailDigits, MaxTail), e \in {<<>>, <<"A">>} }

\* Short texts of sigils, letters and digits: the names and the keywords.
NameAlphabet == {"#", "@", "A", "a", "1"}
ShortNameInputs == TextsUpTo(NameAlphabet, MaxTextLen)

\* i64::MAX, 9223372036854775807
MaxI64Dec ==
    <<"9", "2", "2", "3", "3", "7", "2", "0", "3", "6",
      "8", "5", "4", "7", "7", "5", "8", "0", "7">>

StrAlphabet == {"'", "a", "\\"}

\* The strings that are escaped, quoted and parsed back.
EscapableStrs == TextsUpTo(StrAlphabet, MaxStrLen)

RECURSIVE Escape(_)
\* Every apostrophe of s doubled.
Escape(s) ==
    IF s = <<>> THEN <<>>
    ELSE (IF Head(s) = "'" THEN <<"'", "'">> ELSE <<Head(s)>>) \o Escape(Tail(s))

\* The string literal of s.
Quote(s) == <<"'">> \o Escape(s) \o <<"'">>

\* The literals of the strings, and arbitrary text over the same alphabet.
StrInputs == {Quote(s) : s \in EscapableStrs} \cup TextsUpTo(StrAlphabet, MaxTextLen)

NumAlphabet == {"+", "-", " ", "1", ".", "E", "a"}

\* Numbers around i64::MAX as an integer, an integral part and an exponent.
BigNumInputs ==
    { pre \o Take(MaxI64Dec, k) \o t \o e :
        pre \in {<<>>, <<"-">>, <<"1", ".", "E">>, <<"1", ".", "E", "-">>},
        k \in 0..Len(MaxI64Dec), t \in TextsUpTo(TailDigits, MaxTail),
        e \in {<<>>, <<".">>, <<".", "5">>} }

NumInputs == TextsUpTo(NumAlphabet, MaxTextLen) \cup BigNumInputs

\* The names that a supertype expression uses: the entities a, b, c and d
\* of the first schema, and x, which no schema declares.
DeclaredNames == {"a", "b", "c", "d"}
LeafNames == DeclaredNames \cup {"x"}

RECURSIVE OneOfsUpTo(_)
\* ONEOF over at most n names.
OneOfsUpTo(n) ==
    IF n = 0 THEN {}
    ELSE OneOfsUpTo(n - 1) \cup
         {OneOf([i \in 1..n |-> Leaf(f[i])]) : f \in [1..n -> LeafNames]}

\* The operands of AND and ANDOR: a name, a ONEOF of two declared names, or
\* the AND or ANDOR of two declared names.
Operands ==
    {Leaf(m) : m \in LeafNames}
    \cup {OneOf(<<Leaf(m1), Leaf(m2)>>) : m1, m2 \in DeclaredNames}
    \cup {And(Leaf("a"), Leaf("b")), AndOr(Leaf("c"), Leaf("a"))}

SuperTypeExprs ==
    {Leaf(m) : m \in LeafNames}
    \cup OneOfsUpTo(MaxOneOf)
    \cup {And(l, r) : l, r \in Operands}
    \cup {AndOr(l, r) : l, r \in Operands}

\* The constraint of the entity p of the first schema.
ConstraintsOfP ==
    {NoConstraint, AbstractEntity, AbstractSuperType(<<>>),
     AbstractSuperType(OneOf(<<Leaf("a"), Leaf("b")>>)),
     AbstractSuperType(OneOf(<<Leaf("a"), Leaf("x")>>))}
    \cup {SuperTypeRule(e) : e \in SuperTypeExprs}

\* The constraint of the entity q of the first schema; no schema declares y.
ConstraintsOfQ ==
    {NoConstraint, SuperTypeRule(Leaf("a")), SuperTypeRule(Leaf("y")),
     AbstractSuperType(AndOr(Leaf("c"), Leaf("d")))}

\* The first schema: p and q, and four subtypes of p.
FirstSchema(cp, cq) ==
    AstSchema("s1",
        <<AstEntity("p", cp, <<>>), AstEntity("q", cq, <<>>),
          AstEntity("a", NoConstraint, <<"p">>), AstEntity("b", NoConstraint, <<"p">>),
          AstEntity("c", NoConstraint, <<"p">>), AstEntity("d", NoConstraint, <<"p">>)>>)

\* A second schema with entities of the same names as some of the first.
SecondSchema ==
    AstSchema("s2",
        <<AstEntity("p", SuperTypeRule(OneOf(<<Leaf("b"), Leaf("b")>>)), <<>>),
          AstEntity("b", NoConstraint, <<"p">>)>>)

SyntaxTrees ==
    { <<FirstSchema(cp, cq)>> \o more :
        cp \in ConstraintsOfP, cq \in ConstraintsOfQ, more \in {<<>>, <<SecondSchema>>} }

\* The Paths asked of is_supertype: those of every entity, and one of none.
QueryPaths ==
    {Path(SchemaScope(RootScope, sc), "Entity", m) :
        sc \in {"s1", "s2"}, m \in {"p", "q", "a", "b"}}

\* The names of the declarations of the schema that is legalized, by their
\* place in the source text.
DeclNames == <<"a", "b", "c", "d", "e", "f">>

\* What a declaration refers to: a simple type, the first declaration, or
\* one of two names that nothing declares.
DeclRefs == {"", "a", "u1", "u2"}

\* The containers of a declaration: none, or LIST [0:?] OF.
DeclLists == {NoList, ListBounds(0, <<>>)}

RECURSIVE SourcesUpTo(_)
\* The source texts of at most n declarations: the kind and the reference of
\* each, in source order.
SourcesUpTo(n) ==
    IF n = 0 THEN {<<>>}
    ELSE SourcesUpTo(n - 1) \cup
         [1..n -> [kind : {"Entity", "Type"}, ref : DeclRefs, list : DeclLists]]

\* The declarations of one kind, in source order.
DeclsOfKind(src, kind) ==
    LET at == SelectSeq([i \in 1..Len(src) |-> i], LAMBDA i : src[i].kind = kind)
    IN  [k \in 1..Len(at) |-> AstDecl(DeclNames[at[k]], at[k], src[at[k]].ref, src[at[k]].list)]

\* The parsed schema: the entities and the type declarations are kept in two
\* collections, each in source order.
ParseSchema(src) ==
    [name |-> "s", entities |-> DeclsOfKind(src, "Entity"), types |-> DeclsOfKind(src, "Type")]

\* The namespace of the parsed schema.
SchemaNamespace(sch) ==
    [i \in 1..Len(sch.entities) |->
        [path |-> Path(SchemaScope(RootScope, sch.name), "Entity", sch.entities[i].name),
         ast |-> sch.entities[i]]]
    \o [i \in 1..Len(sch.types) |->
        [path |-> Path(SchemaScope(RootScope, sch.name), "Type", sch.types[i].name),
         ast |-> sch.types[i]]]

NoTree == <<>>

\* No dictionary is being read.
NoDictionary ==
    /\ exchange = <<>>
    /\ dictionary_data = <<>>
    /\ dictionary = <<>>
    /\ visited = {}
    /\ next_entity = 0
    /\ pc = "none"

----------------------------------------------------------------------------
(* The instance names: each behaviour takes one input and applies one parser *)

InitName ==
    /\ input \in NameInputs \cup ShortNameInputs
    /\ op = "none"
    /\ result = NoResult
    /\ st = NoTree
    /\ ns = NoTree
    /\ schema = NoTree
    /\ query = NoTree
    /\ NoDictionary

EntityInstanceName ==
    /\ op = "none"
    /\ op' = "entity_instance_name"
    /\ result' = entity_instance_name(input)
    /\ UNCHANGED <<input, st, ns, schema, query>>
    /\ UNCHANGED dictVars

ValueInstanceName ==
    /\ op = "none"
    /\ op' = "value_instance_name"
    /\ result' = value_instance_name(input)
    /\ UNCHANGED <<input, st, ns, schema, query>>
    /\ UNCHANGED dictVars

RhsOccurrenceName ==
    /\ op = "none"
    /\ op' = "rhs_occurrence_name"
    /\ result' = rhs_occurrence_name(input)
    /\ UNCHANGED <<input, st, ns, schema, query>>
    /\ UNCHANGED dictVars

LhsOccurrenceName ==
    /\ op = "none"
    /\ op' = "lhs_occurrence_name"
    /\ result' = lhs_occurrence_name(input)
    /\ UNCHANGED <<input, st, ns, schema, query>>
    /\ UNCHANGED dictVars

NextName ==
    \/ EntityInstanceName
    \/ ValueInstanceName
    \/ RhsOccurrenceName
    \/ LhsOccurrenceName

SpecName == InitName /\ [][NextName]_vars

----------------------------------------------------------------------------
(* The keywords *)

InitKeyword ==
    /\ input \in ShortNameInputs
    /\ op = "none"
    /\ result = NoResult
    /\ st = NoTree
    /\ ns = NoTree
    /\ schema = NoTree
    /\ query = NoTree
    /\ NoDictionary

StandardKeyword ==
    /\ op = "none"
    /\ op' = "standard_keyword"
    /\ result' = standard_keyword(input)
    /\ UNCHANGED <<input, st, ns, schema, query>>
    /\ UNCHANGED dictVars

TagName ==
    /\ op = "none"
    /\ op' = "tag_name"
    /\ result' = tag_name(input)
    /\ UNCHANGED <<input, st, ns, schema, query>>
    /\ UNCHANGED dictVars

NextKeyword == StandardKeyword \/ TagName

SpecKeyword == InitKeyword /\ [][NextKeyword]_vars

----------------------------------------------------------------------------
(* The string literals *)

InitString ==
    /\ input \in StrInputs
    /\ op = "none"
    /\ result = NoResult
    /\ st = NoTree
    /\ ns = NoTree
    /\ schema = NoTree
    /\ query = NoTree
    /\ NoDictionary

String ==
    /\ op = "none"
    /\ op' = "string"
    /\ result' = string(input)
    /\ UNCHANGED <<input, st, ns, schema, query>>
    /\ UNCHANGED dictVars

RuntimeString ==
    /\ op = "none"
    /\ op' = "runtime_string"
    /\ result' = runtime_string(input)
    /\ UNCHANGED <<input, st, ns, schema, query>>
    /\ UNCHANGED dictVars

NextString == String \/ RuntimeString

SpecString == InitString /\ [][NextString]_vars

----------------------------------------------------------------------------
(* The numbers *)

InitNum ==
    /\ input \in NumInputs
    /\ op = "none"
    /\ result = NoResult
    /\ st = NoTree
    /\ ns = NoTree
    /\ schema = NoTree
    /\ query = NoTree
    /\ NoDictionary

Integer ==
    /\ op = "none"
    /\ op' = "integer"
    /\ result' = integer(input)
    /\ UNCHANGED <<input, st, ns, schema, query>>
    /\ UNCHANGED dictVars

Real ==
    /\ op = "none"
    /\ op' = "real"
    /\ result' = real(input)
    /\ UNCHANGED <<input, st, ns, schema, query>>
    /\ UNCHANGED dictVars

RuntimeReal ==
    /\ op = "none"
    /\ op' = "runtime_real"
    /\ \E build \in NomBuilds : result' = runtime_real(build, input)
    /\ UNCHANGED <<input, st, ns, schema, query>>
    /\ UNCHANGED dictVars

NextNum == Integer \/ Real \/ RuntimeReal

SpecNum == InitNum /\ [][NextNum]_vars

----------------------------------------------------------------------------
(* The constraints: each behaviour takes one syntax tree, builds its        *)
(* Constraints and asks is_supertype of one Path                            *)

InitCons ==
    /\ input = <<>>
    /\ op = "none"
    /\ result = NoResult
    /\ st \in SyntaxTrees
    /\ ns = NamespaceNew(st)
    /\ schema = NoTree
    /\ query = NoTree
    /\ NoDictionary

New ==
    /\ op = "none"
    /\ op' = "new"
    /\ result' = ConstraintsNew(ns, st)
    /\ UNCHANGED <<input, st, ns, schema, query>>
    /\ UNCHANGED dictVars

IsSupertype ==
    /\ op = "new"
    /\ IsOk(result)
    /\ \E path \in QueryPaths :
        query' = [path |-> path, answer |-> is_supertype(result.value, path)]
    /\ op' = "is_supertype"
    /\ UNCHANGED <<input, result, st, ns, schema>>
    /\ UNCHANGED dictVars

NextCons == New \/ IsSupertype

SpecCons == InitCons /\ [][NextCons]_vars

----------------------------------------------------------------------------
(* The legalizer: each behaviour takes one schema and legalizes it *)

InitLegalize ==
    /\ input = <<>>
    /\ op = "none"
    /\ result = NoResult
    /\ st = NoTree
    /\ schema \in {ParseSchema(src) : src \in SourcesUpTo(MaxDecls)}
    /\ ns = SchemaNamespace(schema)
    /\ query = NoTree
    /\ NoDictionary

Legalize ==
    /\ op = "none"
    /\ op' = "legalize"
    /\ result' = SchemaLegalize(ns, RootScope, schema)
    /\ UNCHANGED <<input, st, ns, schema, query>>
    /\ UNCHANGED dictVars

NextLegalize == Legalize

SpecLegalize == InitLegalize /\ [][NextLegalize]_vars

----------------------------------------------------------------------------
(* ruststep/tests/iso_13399_dictionary.rs: the consumer of a data section,  *)
(* which collects the records into tables keyed by their ids and then       *)
(* builds a Property from each NON_DEPENDENT_P_DET                          *)

\* Parameter::String, Parameter::Ref(Name::Entity(id)), Parameter::Typed,
\* Parameter::NotProvided ($) and Parameter::List.
ParameterString(v) == [tag |-> "String", value |-> v]
ParameterRef(id) == [tag |-> "Ref", value |-> id]
ParameterTyped(p) == [tag |-> "Typed", value |-> p]
NotProvided == [tag |-> "NotProvided", value |-> <<>>]
ParameterList == [tag |-> "List", value |-> <<>>]

\* EntityInstance::Simple { id, record }, the record with its name and the
\* list of its parameters.
Simple(id, name, params) == [id |-> id, name |-> name, params |-> params]

\* Option
None == <<>>
Some(v) == <<v>>

\* HashMap::insert
Insert(map, key, value) ==
    [k \in DOMAIN map \cup {key} |-> IF k = key THEN value ELSE map[k]]

\* HashMap::contains_key
ContainsKey(map, key) == key \in DOMAIN map

\* DictionaryData::default()
DictionaryDataDefault ==
    [class_bsus |-> <<>>, property_bsus |-> <<>>, data_types |-> <<>>,
     non_dependent_p_dets |-> <<>>, item_labels |-> <<>>, mathematical_strings |-> <<>>]

\* Dictionary::default()
DictionaryDefault == [classes |-> <<>>, properties |-> <<>>]

\* The length of the slice &params[0..n] that the arm of a record name takes.
SliceLen(name) ==
    CASE name \in {"CLASS_BSU", "PROPERTY_BSU"} -> 2
      [] name = "NON_DEPENDENT_P_DET" -> 13
      [] name = "ITEM_NAMES" -> 5
      [] name \in {"MATHEMATICAL_STRING", "REAL_MEASURE_TYPE"} -> 2
      [] name \in {"INT_TYPE", "BOOLEAN_TYPE"} -> 1
      [] OTHER -> 0

\* The String inside a Typed parameter, if it is one.
TypedString(p) == IF p.value.tag = "String" THEN Some(p.value.value) ELSE None

\* The body of the first loop: the arm of the record's name matches the
\* parameters by position and inserts what it reads under the record's id;
\* a record whose parameters do not match is passed over.
CollectEntity(data, entity) ==
    LET id == entity.id
        name == entity.name
        p == entity.params
    IN  CASE name \in {"CLASS_BSU", "PROPERTY_BSU"} ->
               IF p[1].tag = "String" /\ p[2].tag = "String"
               THEN LET bsu == [code |-> p[1].value, version |-> p[2].value]
                    IN  IF name = "CLASS_BSU"
                        THEN [data EXCEPT !.class_bsus = Insert(@, id, bsu)]
                        ELSE [data EXCEPT !.property_bsus = Insert(@, id, bsu)]
               ELSE data
          [] name = "NON_DEPENDENT_P_DET" ->
               IF /\ p[1].tag = "Ref" /\ p[2].tag = "Ref" /\ p[3].tag = "String"
                  /\ p[4].tag = "Ref" /\ p[5].tag = "Typed" /\ p[9].tag = "Ref"
                  /\ p[13].tag = "Ref" /\ p[5].value.tag = "String"
               THEN [data EXCEPT !.non_dependent_p_dets = Insert(@, id,
                        [description |-> p[5].value.value,
                         property_bsu_id |-> p[1].value,
                         item_name_id |-> p[4].value,
                         revision |-> p[3].value,
                         mathematical_string_id |-> p[9].value,
                         data_type_id |-> p[13].value])]
               ELSE data
          [] name = "ITEM_NAMES" ->
               IF p[1].tag = "Typed" /\ p[3].tag = "Typed"
               THEN [data EXCEPT !.item_labels = Insert(@, id,
                        [description |-> TypedString(p[1]),
                         short_name |-> IF TypedString(p[3]) = Some("") THEN None
                                        ELSE TypedString(p[3])])]
               ELSE data
          [] name = "MATHEMATICAL_STRING" ->
               IF p[1].tag = "String"
               THEN [data EXCEPT !.mathematical_strings = Insert(@, id, p[1].value)]
               ELSE data
          [] name = "REAL_MEASURE_TYPE" ->
               IF p[1].tag = "String" /\ p[2].tag = "Ref"
               THEN [data EXCEPT !.data_types = Insert(@, id,
                        [tag |-> "RealMeasure", format |-> p[1].value, unit_id |-> p[2].value])]
               ELSE data
          [] name \in {"INT_TYPE", "BOOLEAN_TYPE"} ->
               IF p[1].tag = "String"
               THEN [data EXCEPT !.data_types = Insert(@, id,
                        [tag |-> IF name = "INT_TYPE" THEN "Integer" ELSE "Boolean",
                         format |-> p[1].value])]
               ELSE data
          [] OTHER -> data

\* DataType::Unimplemented { id }
Unimplemented(id) == [tag |-> "Unimplemented", id |-> id]

\* The body of the second loop with the BSU looked up under the id of the
\* item names.
MakePropertyByItemName(data, ndpd) ==
    IF \/ ~ContainsKey(data.property_bsus, ndpd.item_name_id)
       \/ ~ContainsKey(data.item_labels, ndpd.item_name_id)
       \/ ~ContainsKey(data.mathematical_strings, ndpd.mathematical_string_id)
    THEN None
    ELSE Some([bsu |-> data.property_bsus[ndpd.item_name_id],
               item_label |-> data.item_labels[ndpd.item_name_id],
               mathematical_string |-> data.mathematical_strings[ndpd.mathematical_string_id],
               data_type |-> IF ContainsKey(data.data_types, ndpd.data_type_id)
                             THEN data.data_types[ndpd.data_type_id]
                             ELSE Unimplemented(ndpd.data_type_id),
               non_dependent_p_det |-> ndpd])

\* The body of the second loop: the Property of a NON_DEPENDENT_P_DET, its
\* references looked up in the tables.  Indexing a HashMap with a key it
\* does not hold panics (None here); data_types.get(..).unwrap_or(..) does
\* not.
MakeProperty(data, ndpd) ==
    IF \/ ~ContainsKey(data.property_bsus, ndpd.property_bsu_id)
       \/ ~ContainsKey(data.item_labels, ndpd.item_name_id)
       \/ ~ContainsKey(data.mathematical_strings, ndpd.mathematical_string_id)
    THEN None
    ELSE Some([bsu |-> data.property_bsus[ndpd.property_bsu_id],
               item_label |-> data.item_labels[ndpd.item_name_id],
               mathematical_string |-> data.mathematical_strings[ndpd.mathematical_string_id],
               data_type |-> IF ContainsKey(data.data_types, ndpd.data_type_id)
                             THEN data.data_types[ndpd.data_type_id]
                             ELSE Unimplemented(ndpd.data_type_id),
               non_dependent_p_det |-> ndpd])

\* The records of the data sections that are read: #1 a PROPERTY_BSU, #2 an
\* ITEM_NAMES, #3 a MATHEMATICAL_STRING, #4 an INT_TYPE, and from #5 on the
\* NON_DEPENDENT_P_DETs that refer to them.  Each carries its id as content.
PropertyBsu(id) ==
    Simple(id, "PROPERTY_BSU", <<ParameterString(ToString(id)), ParameterString("001")>>)

ItemNames(id) ==
    Simple(id, "ITEM_NAMES",
           <<ParameterTyped(ParameterString(ToString(id))), ParameterList,
             ParameterTyped(ParameterString("")), NotProvided, NotProvided>>)

MathematicalString(id) ==
    Simple(id, "MATHEMATICAL_STRING", <<ParameterString(ToString(id)), NotProvided>>)

IntType(id) == Simple(id, "INT_TYPE", <<ParameterString("NR1")>>)

NonDependentPDet(id, property_bsu, item_names, mathematical_string, value) ==
    Simple(id, "NON_DEPENDENT_P_DET",
           <<ParameterRef(property_bsu), ParameterRef(0), ParameterString("001"),
             ParameterRef(item_names), ParameterTyped(ParameterString(ToString(id))),
             NotProvided, NotProvided, NotProvided, ParameterRef(mathematical_string),
             ParameterList, NotProvided, NotProvided, ParameterRef(value), NotProvided>>)

\* The first NON_DEPENDENT_P_DET has the INT_TYPE #4 for its values, the
\* second a type that the data section does not hold, and so on.
Records ==
    {PropertyBsu(1), ItemNames(2), MathematicalString(3), IntType(4)}
    \cup {NonDependentPDet(4 + k, 1, 2, 3, IF k % 2 = 1 THEN 4 ELSE 0) : k \in 1..MaxPDets}

RECURSIVE Arrangements(_)
\* The sequences without repetition of elements of the set.
Arrangements(set) ==
    {<<>>} \cup UNION {{<<r>> \o t : t \in Arrangements(set \ {r})} : r \in set}

\* The data sections: some of the records, in any order.
DataSections == Arrangements(Records)

\* The variables of the parsers, the constraints and the legalizer.
otherVars == <<input, op, result, st, ns, schema, query>>

InitDictionary ==
    /\ input = <<>>
    /\ op = "none"
    /\ result = NoResult
    /\ st = NoTree
    /\ ns = NoTree
    /\ schema = NoTree
    /\ query = NoTree
    /\ exchange \in DataSections
    /\ dictionary_data = DictionaryDataDefault
    /\ dictionary = <<>>
    /\ visited = {}
    /\ next_entity = 1
    /\ pc = "collect"

\* One turn of `for entity in &exchange.data[0].entities`; taking a slice
\* longer than the parameter list panics.
Collect ==
    /\ pc = "collect"
    /\ next_entity <= Len(exchange)
    /\ LET entity == exchange[next_entity]
       IN  IF Len(entity.params) < SliceLen(entity.name)
           THEN pc' = "panic" /\ UNCHANGED dictionary_data
           ELSE pc' = pc /\ dictionary_data' = CollectEntity(dictionary_data, entity)
    /\ next_entity' = next_entity + 1
    /\ UNCHANGED <<exchange, dictionary, visited>>
    /\ UNCHANGED otherVars

\* The first loop is over: let mut dictionary = Dictionary::default().
NewDictionary ==
    /\ pc = "collect"
    /\ next_entity > Len(exchange)
    /\ dictionary' = DictionaryDefault
    /\ pc' = IF DOMAIN dictionary_data.non_dependent_p_dets = {} THEN "done" ELSE "resolve"
    /\ UNCHANGED <<exchange, dictionary_data, visited, next_entity>>
    /\ UNCHANGED otherVars

\* One turn of `for (_, non_dependent_p_det) in &dictionary_data
\* .non_dependent_p_dets`; a HashMap is gone through in no particular order.
BuildProperty ==
    /\ pc = "resolve"
    /\ \E key \in DOMAIN dictionary_data.non_dependent_p_dets \ visited :
        LET property == MakeProperty(dictionary_data,
                                     dictionary_data.non_dependent_p_dets[key])
        IN  /\ visited' = visited \cup {key}
            /\ IF property = None
               THEN pc' = "panic" /\ UNCHANGED dictionary
               ELSE /\ dictionary' = [dictionary EXCEPT
                                        !.properties = Append(@, property[1])]
                    /\ pc' = IF visited' = DOMAIN dictionary_data.non_dependent_p_dets
                             THEN "done" ELSE "resolve"
    /\ UNCHANGED <<exchange, dictionary_data, next_entity>>
    /\ UNCHANGED otherVars

NextDictionary == Collect \/ NewDictionary \/ BuildProperty

SpecDictionary == InitDictionary /\ [][NextDictionary]_vars

----------------------------------------------------------------------------
(* Decimal numerals, for stating what a parsed identifier is *)

RECURSIVE StripZeros(_)
\* The canonical decimal form: no leading zero, except for "0" itself.
StripZeros(d) == IF Len(d) > 1 /\ Head(d) = "0" THEN StripZeros(Tail(d)) ELSE d

RECURSIVE LexLeq(_, _)
LexLeq(a, b) ==
    IF a = <<>> THEN TRUE
    ELSE IF DigitVal(Head(a)) # DigitVal(Head(b)) THEN DigitVal(Head(a)) < DigitVal(Head(b))
    ELSE LexLeq(Tail(a), Tail(b))

\* a <= b for canonical decimal forms.
DecLeq(a, b) == Len(a) < Len(b) \/ (Len(a) = Len(b) /\ LexLeq(a, b))

RECURSIVE DivLimbs(_, _)
\* Long division by 10 of limbs given most significant first:
\* the quotient's limbs followed by the remainder.
DivLimbs(be, rem) ==
    IF be = <<>> THEN <<rem>>
    ELSE LET t == rem * LimbBase + Head(be)
         IN  <<t \div 10>> \o DivLimbs(Tail(be), t % 10)

Reverse(s) == [i \in 1..Len(s) |-> s[Len(s) + 1 - i]]

RECURSIVE DecOfLimbs(_)
\* The decimal digits of a non-zero value (limbs most significant first).
DecOfLimbs(be) ==
    IF \A i \in 1..Len(be) : be[i] = 0 THEN <<>>
    ELSE LET q == DivLimbs(be, 0)
         IN  DecOfLimbs(Take(q, Len(be))) \o <<DigitSeq[q[Len(q)] + 1]>>

\* The canonical decimal form of an identifier (limbs least significant first).
ToDecimal(v) == IF v = ZeroLimbs THEN <<"0">> ELSE DecOfLimbs(Reverse(v))

IsDigits(s) == s # <<>> /\ \A i \in 1..Len(s) : s[i] \in Digits

Sigil(o) == IF o = "entity_instance_name" THEN "#" ELSE "@"

\* The state is the result of an instance-name parser on its sigil followed
\* by digits and nothing else.
NameCase ==
    /\ op \in {"entity_instance_name", "value_instance_name"}
    /\ input # <<>> /\ Head(input) = Sigil(op)
    /\ IsDigits(Tail(input))

FitsU64(d) == DecLeq(StripZeros(d), MaxU64Dec)

\* C1: `#` (or `@`) followed by the decimal form of an N in [0, 2^64-1], with
\* or without leading zeros, parses to N (the value whose canonical decimal
\* form is the digits with the leading zeros dropped) and leaves no input.
C1_RoundTripIdentifiers ==
    (NameCase /\ FitsU64(Tail(input))) =>
        /\ IsOk(result)
        /\ result.rest = <<>>
        /\ ToDecimal(result.value) = StripZeros(Tail(input))

\* u64::MAX behind two leading zeros has been parsed to u64::MAX.
C1_Witness ==
    /\ op = "entity_instance_name"
    /\ input = <<"#", "0", "0">> \o MaxU64Dec
    /\ IsOk(result)
    /\ result.value = <<65535, 65535, 65535, 65535>>

\* C2: `#d` and `@d` with d > 2^64-1 end in the failure "u64-overflow", never
\* in an identifier.
C2_ReferenceOverflow ==
    (NameCase /\ ~FitsU64(Tail(input))) =>
        /\ result.tag = "Failure"
        /\ result.ctx = "u64-overflow"

\* u64::MAX + 1 has been refused.
C2_Witness ==
    /\ op = "value_instance_name"
    /\ input = <<"@">> \o Take(MaxU64Dec, 19) \o <<"6">>
    /\ result.tag = "Failure"

\* C3: the literal of a string s (every apostrophe doubled, the whole between
\* apostrophes) parses back to exactly s and leaves no input.
C3_ApostropheEscape ==
    \A s \in EscapableStrs :
        (op = "string" /\ input = Quote(s)) => result = Ok(<<>>, s)

\* A string of apostrophes only, and one with an apostrophe at each end,
\* have been parsed back.
C3_Witness ==
    /\ op = "string"
    /\ input \in {Quote(<<"'", "'">>), Quote(<<"'", "a", "\\", "'">>)}
    /\ IsOk(result)
    /\ result.value \in {<<"'", "'">>, <<"'", "a", "\\", "'">>}

\* C4: real returns an error for every input without a `.`.
C4_RealNeedsDot ==
    (op = "real" /\ ~Contains(input, ".")) => result.tag = "Error"

\* A signed integer text has been refused by real.
C4_Witness ==
    /\ op = "real"
    /\ input = <<"-", "1", "1">>
    /\ result.tag = "Error"

\* The input with its leading sign, if any, removed.
Unsigned(in) == IF in # <<>> /\ Head(in) \in {"+", "-"} THEN Tail(in) ELSE in

\* The input is [sign] digits `.` rest.
DotForm(in) ==
    LET n == SpanLen(Unsigned(in), Digits)
    IN  n > 0 /\ Len(Unsigned(in)) > n /\ Unsigned(in)[n + 1] = "."

IntegralDigits(in) == Take(Unsigned(in), SpanLen(Unsigned(in), Digits))

\* The input from its first `.` on.
FromFirstDot(in) == Drop(in, SpanLenNot(in, "."))

----------------------------------------------------------------------------
(* The constraints of an entity *)

\* Constraints::new has returned a Constraints table.
Built == op \in {"new", "is_supertype"} /\ IsOk(result)

EntityPath(x) == Path(x.scope, "Entity", x.entity.name)

\* The entities of the syntax tree with a SUPERTYPE OF rule.
RuleEntities ==
    LET es == EntitiesOf(st)
    IN  {es[i] : i \in {j \in 1..Len(es) : es[j].entity.constraint.tag = "SuperTypeRule"}}

\* Their Paths.
RulePaths == {EntityPath(x) : x \in RuleEntities}

\* The bundles that Constraints::new gives an entity of scope sc for expr.
BundlesOf(sc, expr) == IndicesToPaths(ns, from_expr(ns, sc, expr).parts)

IsOneOfNames(expr) ==
    expr.tag = "OneOf" /\ \A i \in 1..Len(expr.children) : expr.children[i].tag = "Leaf"

RECURSIVE Rows(_, _)
\* For each bundle of a in turn, its concatenation with each bundle of b in turn.
Rows(a, b) ==
    IF a = <<>> THEN <<>>
    ELSE [j \in 1..Len(b) |-> Head(a) \o b[j]] \o Rows(Tail(a), b)

\* C6: the entry of an entity with SUPERTYPE OF (ONEOF(a1, ..., an)) is the n
\* singleton bundles [a1], ..., [an] of entity Paths, in the written order.
C6_OneOfSingletons ==
    Built => \A x \in RuleEntities :
        LET expr == x.entity.constraint.expr
        IN  IsOneOfNames(expr) =>
                result.value[EntityPath(x)] =
                    [i \in 1..Len(expr.children) |->
                        <<Path(x.scope, "Entity", expr.children[i].name)>>]

\* ONEOF(c, a, c) has given [c], [a], [c].
C6_Witness ==
    /\ Built
    /\ st[1].entities[1].constraint = SuperTypeRule(OneOf(<<Leaf("c"), Leaf("a"), Leaf("c")>>))
    /\ Len(result.value[Path(<<<<"Schema", "s1">>>>, "Entity", "p")]) = 3

\* C7: the entry of an entity with SUPERTYPE OF (A AND B) is, for each bundle
\* of A in turn and each bundle of B in turn, the one concatenated with the
\* other, and nothing else.
C7_AndProduct ==
    Built => \A x \in RuleEntities :
        LET expr == x.entity.constraint.expr
        IN  expr.tag = "And" =>
                LET a == BundlesOf(x.scope, expr.children[1])
                    b == BundlesOf(x.scope, expr.children[2])
                    both == result.value[EntityPath(x)]
                IN  /\ both = Rows(a, b)
                    /\ Len(both) = Len(a) * Len(b)
                    /\ \A i \in 1..Len(a) : \A j \in 1..Len(b) :
                            both[(i - 1) * Len(b) + j] = a[i] \o b[j]

S1(name) == Path(<<<<"Schema", "s1">>>>, "Entity", name)

\* ONEOF(a, b) AND ONEOF(c, d) has given [a,c], [a,d], [b,c], [b,d].
C7_Witness ==
    /\ Built
    /\ st[1].entities[1].constraint =
            SuperTypeRule(And(OneOf(<<Leaf("a"), Leaf("b")>>), OneOf(<<Leaf("c"), Leaf("d")>>)))
    /\ result.value[S1("p")] =
            << <<S1("a"), S1("c")>>, <<S1("a"), S1("d")>>,
               <<S1("b"), S1("c")>>, <<S1("b"), S1("d")>> >>

\* C8: the entry of an entity with SUPERTYPE OF (A ANDOR B) is the bundles of
\* A, then those of B, then those of A AND B, and nothing else.
C8_AndOrUnion ==
    Built => \A x \in RuleEntities :
        LET expr == x.entity.constraint.expr
        IN  expr.tag = "AndOr" =>
                LET a == BundlesOf(x.scope, expr.children[1])
                    b == BundlesOf(x.scope, expr.children[2])
                IN  result.value[EntityPath(x)] = a \o b \o Rows(a, b)

\* a ANDOR b has given [a], [b], [a,b].
C8_Witness ==
    /\ Built
    /\ st[1].entities[1].constraint = SuperTypeRule(AndOr(Leaf("a"), Leaf("b")))
    /\ result.value[S1("p")] = << <<S1("a")>>, <<S1("b")>>, <<S1("a"), S1("b")>> >>

----------------------------------------------------------------------------
(* The legalizer *)

\* The declarations of the schema, of both kinds.
AllDecls == {schema.entities[i] : i \in 1..Len(schema.entities)}
            \cup {schema.types[i] : i \in 1..Len(schema.types)}

Here == SchemaScope(RootScope, schema.name)

\* The declarations that do not legalize.
FailingDecls == {d \in AllDecls : ~IsOk(DeclLegalize(ns, Here, d))}

\* C10: when declarations fail to legalize, the error returned is that of the
\* failing declaration that comes first in the source text.
C10_FirstErrorInSourceOrder ==
    (op = "legalize" /\ FailingDecls # {}) =>
        result = DeclLegalize(ns, Here,
                    CHOOSE d \in FailingDecls : \A e \in FailingDecls : d.pos <= e.pos)

\* The i-th legalized declaration comes from the i-th declaration of the
\* syntax tree.
ComesFrom(legalized, decls) ==
    /\ Len(legalized) = Len(decls)
    /\ \A i \in 1..Len(decls) :
        /\ legalized[i].name = decls[i].name
        /\ legalized[i].pos = decls[i].pos
        /\ legalized[i] = DeclLegalize(ns, Here, decls[i]).value

\* C11: a successful legalize returns a Schema with the name of the input,
\* whose entities and types come one by one, in order, from those of the
\* syntax tree; a failed legalize returns the SemanticError and no Schema,
\* and legalize fails exactly when some declaration does.
C11_LegalizeAllOrNothing ==
    op = "legalize" =>
        /\ result.tag \in {"Ok", "Err"}
        /\ IsOk(result) <=> FailingDecls = {}
        /\ IsOk(result) =>
            /\ DOMAIN result.value = {"name", "entities", "types"}
            /\ result.value.name = schema.name
            /\ ComesFrom(result.value.entities, schema.entities)
            /\ ComesFrom(result.value.types, schema.types)
        /\ ~IsOk(result) =>
            /\ DOMAIN result.value = {"kind", "name", "scope"}
            /\ result.value.kind = "UnresolvedName"

C11_Witness ==
    /\ op = "legalize"
    /\ IsOk(result)
    /\ Len(result.value.entities) = 2
    /\ Len(result.value.types) = 1
    /\ schema.types[1].pos = 2
    /\ result.value.entities[2].ty.tag = "List"

\* A legalize that fails on a type declaration after its entities legalized.
C11_WitnessFailure ==
    /\ op = "legalize"
    /\ ~IsOk(result)
    /\ Len(schema.entities) = 2
    /\ \A i \in 1..2 : IsOk(DeclLegalize(ns, Here, schema.entities[i]))

\* SCHEMA s; ENTITY a; x: REAL; END_ENTITY;
\*           ENTITY b; a: LIST [0:?] OF a; END_ENTITY; END_SCHEMA;
ListScenario ==
    ParseSchema(<<[kind |-> "Entity", ref |-> "", list |-> NoList],
                  [kind |-> "Entity", ref |-> "a", list |-> ListBounds(0, <<>>)]>>)

\* The legalized schema has two entities and the attribute of b is a list,
\* from 0 and without upper bound, of the entity of the given name.
ListOfEntity(name) ==
    /\ IsOk(result)
    /\ Len(result.value.entities) = 2
    /\ result.value.entities[2].name = "b"
    /\ result.value.entities[2].ty = ListOf(0, <<>>, EntityRef(Path(Here, "Entity", name)))

\* C16, as stated: legalizing the list scenario yields two entities, and
\* the attribute b.a is List{lower=0, upper=None, item=Entity(path(s,b))}.
C16_ListItemIsB == (op = "legalize" /\ schema = ListScenario) => ListOfEntity("b")

\* C16, amended: legalizing the list scenario yields two entities, and the
\* attribute b.a is List{lower=0, upper=None, item=Entity(path(s,a))}: the
\* item is the entity a that LIST OF a names, not the entity b that holds
\* the attribute.
C16_ListItemIsA == (op = "legalize" /\ schema = ListScenario) => ListOfEntity("a")

C16_Witness ==
    /\ op = "legalize"
    /\ schema = ListScenario
    /\ IsOk(result)
    /\ result.value.entities[1].ty = SimpleType("REAL")
    /\ result.value.entities[2].ty.tag = "List"

----------------------------------------------------------------------------
(* espr-runtime's string *)

\* C17: espr-runtime's string parses the literal of every string back to
\* the string, two consecutive apostrophes of the literal being one
\* apostrophe of the content, and leaves no input.
C17_RuntimeApostropheEscape ==
    \A s \in EscapableStrs :
        (op = "runtime_string" /\ input = Quote(s)) => result = Ok(<<>>, s)

----------------------------------------------------------------------------
(* The integers *)

\* C18: integer, and real with its exponent, return a value or an error on
\* every input; digits that do not fit i64 do not abort the program.
C18_OverflowIsAnError ==
    op \in {"integer", "real"} => result.tag \in {"Ok", "Error", "Failure"}

\* What a parser that succeeded has consumed of the input.
Consumed == Take(input, Len(input) - Len(result.rest))

\* C19: what integer accepts is [sign] digit {digit} and nothing else: no
\* whitespace stands between the sign and the digits.
C19_IntegerGrammar ==
    (op = "integer" /\ IsOk(result)) => IsDigits(Unsigned(Consumed))

----------------------------------------------------------------------------
(* The reals *)

\* What follows the integral digits and the `.` of the input.
AfterDot(in) == Drop(Unsigned(in), SpanLen(Unsigned(in), Digits) + 1)

FractionalDigits(in) == Take(AfterDot(in), SpanLen(AfterDot(in), Digits))

\* What follows the fractional digits: the exponent part, if any.
ExponentPart(in) == Drop(AfterDot(in), SpanLen(AfterDot(in), Digits))

\* The digits of the exponent part `E` [sign] digits.
ExponentDigits(in) == Unsigned(Tail(ExponentPart(in)))

\* The whole input is [sign] digits `.` digits* [ `E` [sign] digits ].
RealForm(in) ==
    /\ DotForm(in)
    /\ \/ ExponentPart(in) = <<>>
       \/ Head(ExponentPart(in)) = "E" /\ IsDigits(ExponentDigits(in))

\* C12: real accepts every text [sign] digits `.` digits* [ `E` [sign] digits ]
\* whole, and its value is that of the integral and fractional digits with
\* the exponent written (0 when there is none), negated after a leading `-`.
C12_RealValue ==
    (op = "real" /\ RealForm(input)) =>
        /\ IsOk(result)
        /\ result.rest = <<>>
        /\ result.value.neg = (Head(input) = "-")
        /\ result.value.integral = IntegralDigits(input)
        /\ result.value.fractional = FractionalDigits(input)
        /\ IF ExponentPart(input) = <<>>
           THEN result.value.exp = [neg |-> FALSE, mag |-> ZeroLimbs]
           ELSE /\ result.value.exp.neg = (ExponentPart(input)[2] = "-")
                /\ ToDecimal(result.value.exp.mag) = StripZeros(ExponentDigits(input))

\* C20: espr-runtime's real returns an error for text that has no `.`, for
\* text whose integral part is empty, and for words that are no number.
C20_RuntimeRealGrammar ==
    (op = "runtime_real" /\ (~Contains(input, ".") \/ IntegralDigits(input) = <<>>)) =>
        ~IsOk(result)

----------------------------------------------------------------------------
(* The keywords and the occurrence names *)

\* The longest prefix of the text made of the characters of the class.
MaximalPrefix(in, class) == Take(in, SpanLen(in, class))

\* The parser has returned the longest prefix of the input made of the
\* characters of the class, and left what follows it.
ReturnsMaximalPrefix(class) ==
    /\ IsOk(result)
    /\ result.value = MaximalPrefix(input, class)
    /\ result.rest = Drop(input, Len(MaximalPrefix(input, class)))

\* C14: standard_keyword succeeds exactly on an input that starts with an
\* uppercase letter, and returns its longest prefix of uppercase letters and
\* digits; tag_name succeeds exactly on an input that starts with a letter,
\* and returns its longest prefix of letters and digits; otherwise (a first
\* character that is a digit or, for standard_keyword, a lowercase letter)
\* both return the recoverable error.
C14_KeywordPrefix ==
    /\ op = "standard_keyword" =>
          IF input # <<>> /\ Head(input) \in Uppers
          THEN ReturnsMaximalPrefix(Uppers \cup Digits)
          ELSE result = Error
    /\ op = "tag_name" =>
          IF input # <<>> /\ Head(input) \in Uppers \cup Lowers
          THEN ReturnsMaximalPrefix(Uppers \cup Lowers \cup Digits)
          ELSE result = Error

\* standard_keyword has stopped at a lowercase letter after a digit.
C14_Witness ==
    /\ op = "standard_keyword"
    /\ input = <<"A", "1", "a", "A">>
    /\ result = Ok(<<"a", "A">>, <<"A", "1">>)

\* The input is a sigil followed by at least one digit.
NumericName(in) == Len(in) >= 2 /\ in[1] \in {"#", "@"} /\ in[2] \in Digits

\* The input is a sigil followed by an uppercase letter.
ConstantName(in) == Len(in) >= 2 /\ in[1] \in {"#", "@"} /\ in[2] \in Uppers

NameDigits(in) == MaximalPrefix(Tail(in), Digits)

\* The parsers among the four of rhs_occurrence_name that succeed.
MatchingVariants(in) ==
    {v \in {"Entity", "Value", "ConstantEntity", "ConstantValue"} :
        IsOk(CASE v = "Entity" -> entity_instance_name(in)
               [] v = "Value" -> value_instance_name(in)
               [] v = "ConstantEntity" -> constant_entity_name(in)
               [] v = "ConstantValue" -> constant_value_name(in))}

\* C13: rhs_occurrence_name gives Name::Entity(n) for `#` digits,
\* Name::Value(n) for `@` digits (n within u64), Name::ConstantEntity(name)
\* for `#` and a standard keyword and Name::ConstantValue(name) for `@` and
\* a standard keyword; no input matches two variants; lhs_occurrence_name
\* gives the same as rhs_occurrence_name on the numeric forms and an error
\* on both constant forms.
C13_OccurrenceNames ==
    op \in {"rhs_occurrence_name", "lhs_occurrence_name"} =>
        /\ Cardinality(MatchingVariants(input)) <= 1
        /\ (NumericName(input) /\ FitsU64(NameDigits(input))) =>
            /\ IsOk(result)
            /\ result.value.variant = (IF Head(input) = "#" THEN "Entity" ELSE "Value")
            /\ ToDecimal(result.value.value) = StripZeros(NameDigits(input))
            /\ result.rest = Drop(input, 1 + Len(NameDigits(input)))
        /\ (ConstantName(input) /\ op = "rhs_occurrence_name") =>
            /\ IsOk(result)
            /\ result.value.variant =
                    (IF Head(input) = "#" THEN "ConstantEntity" ELSE "ConstantValue")
            /\ result.value.value = MaximalPrefix(Tail(input), Uppers \cup Digits)
            /\ result.rest = Drop(input, 1 + Len(result.value.value))
        /\ (ConstantName(input) /\ op = "lhs_occurrence_name") => result.tag = "Error"

\* @A1 has been read as a constant value name by rhs_occurrence_name.
C13_Witness ==
    /\ op = "rhs_occurrence_name"
    /\ input = <<"@", "A", "1">>
    /\ result = Ok(<<>>, Name("ConstantValue", <<"A", "1">>))

\* #A has been refused by lhs_occurrence_name.
C13_WitnessLhs ==
    /\ op = "lhs_occurrence_name"
    /\ input = <<"#", "A">>
    /\ result = Error

----------------------------------------------------------------------------
(* The dictionary consumer *)

\* The data section holds a record of the id and the name.
HasRecord(id, name) ==
    \E i \in 1..Len(exchange) : exchange[i].id = id /\ exchange[i].name = name

\* The record of the id, wherever it stands in the data section.
RecordOf(id) == exchange[CHOOSE i \in 1..Len(exchange) : exchange[i].id = id]

\* The NON_DEPENDENT_P_DET records of the data section.
PDets == {i \in 1..Len(exchange) : exchange[i].name = "NON_DEPENDENT_P_DET"}

\* The references of a NON_DEPENDENT_P_DET record that the second loop
\* indexes the tables with, each with the name of the record it must reach.
References(r) ==
    {<<r.params[1].value, "PROPERTY_BSU">>, <<r.params[4].value, "ITEM_NAMES">>,
     <<r.params[9].value, "MATHEMATICAL_STRING">>}

\* A reference of the record reaches no record of the data section.
Dangling(r) == \E ref \in References(r) : ~HasRecord(ref[1], ref[2])

\* The record has been put into the table of its name, under its id.
Collected(r) ==
    ContainsKey(CASE r.name = "PROPERTY_BSU" -> dictionary_data.property_bsus
                  [] r.name = "ITEM_NAMES" -> dictionary_data.item_labels
                  [] r.name = "MATHEMATICAL_STRING" -> dictionary_data.mathematical_strings
                  [] r.name = "INT_TYPE" -> dictionary_data.data_types
                  [] r.name = "NON_DEPENDENT_P_DET" -> dictionary_data.non_dependent_p_dets,
                r.id)

\* The property holds what the records that its NON_DEPENDENT_P_DET refers
\* to hold, wherever those records stand in the data section.
ResolvesToRecords(property) ==
    LET pdet == property.non_dependent_p_det
    IN  /\ HasRecord(pdet.property_bsu_id, "PROPERTY_BSU")
        /\ property.bsu.code = RecordOf(pdet.property_bsu_id).params[1].value
        /\ HasRecord(pdet.item_name_id, "ITEM_NAMES")
        /\ property.item_label.description
               = Some(RecordOf(pdet.item_name_id).params[1].value.value)
        /\ HasRecord(pdet.mathematical_string_id, "MATHEMATICAL_STRING")
        /\ property.mathematical_string
               = RecordOf(pdet.mathematical_string_id).params[1].value
        /\ property.data_type =
               IF HasRecord(pdet.data_type_id, "INT_TYPE")
               THEN [tag |-> "Integer",
                     format |-> RecordOf(pdet.data_type_id).params[1].value]
               ELSE Unimplemented(pdet.data_type_id)

\* C15: the consumer looks a reference up only after it has collected every
\* record of the data section into the tables, so each reference of a
\* NON_DEPENDENT_P_DET resolves to the record of that id whether the record
\* stands before or after it: each Property holds what the records referred
\* to hold, the second loop panics only on a reference that no record of
\* the data section answers, and otherwise every NON_DEPENDENT_P_DET gets
\* its Property.
C15_ForwardReferencesResolve ==
    /\ pc = "collect" => visited = {} /\ dictionary \in {<<>>, DictionaryDefault}
    /\ pc \in {"resolve", "done"} \/ visited # {} =>
          /\ next_entity > Len(exchange)
          /\ \A i \in 1..Len(exchange) : Collected(exchange[i])
    /\ pc \in {"resolve", "done"} =>
          \A k \in 1..Len(dictionary.properties) :
              ResolvesToRecords(dictionary.properties[k])
    /\ pc = "panic" => \E i \in PDets : Dangling(exchange[i])
    /\ pc = "done" => Len(dictionary.properties) = Cardinality(PDets)

\* A data section that begins with one NON_DEPENDENT_P_DET, whose references
\* all point forward, and ends with the other, whose references all point
\* backward, has been read to the end.
C15_Witness ==
    /\ pc = "done"
    /\ Len(exchange) = 6
    /\ exchange[1].id = 5
    /\ exchange[6].id = 6
    /\ Len(dictionary.properties) = 2
    /\ \A k \in 1..2 : dictionary.properties[k].bsu.code = "1"

----------------------------------------------------------------------------
(* The errors of Constraints::new *)

RECURSIVE LeavesOf(_)
\* The leaf names of a supertype expression.
LeavesOf(expr) ==
    IF expr.tag = "Leaf" THEN {expr.name}
    ELSE UNION {LeavesOf(expr.children[i]) : i \in 1..Len(expr.children)}

\* The leaf names of the SUPERTYPE OF expression of an entity, if it has
\* one, that resolve to nothing.
UnresolvedLeaves(x) ==
    IF x.entity.constraint.expr = <<>> THEN {}
    ELSE {m \in LeavesOf(x.entity.constraint.expr) : Resolve(ns, x.scope, m) = 0}

\* C23: when a leaf name of the SUPERTYPE OF expression of some entity
\* resolves to nothing, Constraints::new returns the SemanticError of the
\* first such entity (schemas in order, entities in order) and no table.
C23_UnresolvedLeafIsReturned ==
    op = "new" =>
        LET es == EntitiesOf(st)
            bad == {i \in 1..Len(es) : UnresolvedLeaves(es[i]) # {}}
        IN  bad # {} =>
                LET first == es[CHOOSE i \in bad : \A j \in bad : i <= j]
                IN  /\ result.tag = "Err"
                    /\ result.value.kind = "UnresolvedName"
                    /\ result.value.name \in UnresolvedLeaves(first)
                    /\ result.value.scope = first.scope


-----------------------------------------------------------------------------
(* espr: codegen::rust::entity, the Rust items of an entity *)

\* A token is a sequence of chunks (an identifier is the chunks of its
\* characters); a token stream is a sequence of tokens.
Tk(s) == <<s>>

UpperCase(c) ==
    CASE c = "a" -> "A" [] c = "b" -> "B" [] c = "p" -> "P" [] c = "q" -> "Q"
      [] c = "s" -> "S" [] c = "u" -> "U" [] OTHER -> c

RECURSIVE PascalWords(_, _)
PascalWords(name, start) ==
    IF name = <<>> THEN <<>>
    ELSE IF Head(name) = "_" THEN PascalWords(Tail(name), TRUE)
    ELSE <<IF start THEN UpperCase(Head(name)) ELSE Head(name)>>
             \o PascalWords(Tail(name), FALSE)

to_pascal_case(name) == PascalWords(name, TRUE)

TypeRefEntity(name, flag) ==
    [tag |-> "Entity", name |-> name, is_supertype |-> flag]

EntityAttribute(name, ty, optional) ==
    [name |-> name, ty |-> ty, optional |-> optional]

IrEntity(name, attributes, subtypes, supertypes) ==
    [name |-> name, attributes |-> attributes, subtypes |-> subtypes,
     supertypes |-> supertypes]

is_simple(ty) == ty.tag = "Simple"

type_ref_to_tokens(ty) ==
    IF ty.tag = "Simple" THEN <<Tk("f64")>> ELSE <<to_pascal_case(ty.name)>>

\* quote!'s #( ... ),* : the separator stands between items only
RECURSIVE Separated(_, _)
Separated(items, sep) ==
    IF items = <<>> THEN <<>>
    ELSE IF Len(items) = 1 THEN Head(items)
    ELSE Head(items) \o <<sep>> \o Separated(Tail(items), sep)

attribute_to_tokens(attr) ==
    LET ty == type_ref_to_tokens(attr.ty)
        attr_type == IF attr.optional
                     THEN <<Tk("Option"), Tk("<")>> \o ty \o <<Tk(">")>>
                     ELSE ty
        use_place_holder == IF is_simple(attr.ty) THEN <<>>
                            ELSE <<Tk("#[holder(use_place_holder)]")>>
    IN  use_place_holder \o <<Tk("pub"), attr.name, Tk(":")>> \o attr_type

supertype_attributes(entity) ==
    Separated([i \in 1..Len(entity.supertypes) |->
                  <<Tk("pub"), entity.supertypes[i].name, Tk(":")>>
                      \o type_ref_to_tokens(entity.supertypes[i])],
              Tk(","))

AnyIdent(name) == to_pascal_case(name) \o <<"Any">>

generate_any_def_for_many(entity) ==
    IF Len(entity.subtypes) < 2 THEN <<>>
    ELSE <<Tk("pub"), Tk("enum"), AnyIdent(entity.name), Tk("{"), Tk("}")>>

generate_any_def(entity) ==
    IF entity.subtypes = <<>> THEN <<>>
    ELSE <<Tk("#[derive(Debug, Clone, PartialEq, Holder)]"),
           Tk("#[holder(table = Tables)]"),
           Tk("#[holder(generate_deserialize)]"),
           Tk("pub"), Tk("enum"), AnyIdent(entity.name), Tk("{")>>
         \o Separated([i \in 1..Len(entity.subtypes) |->
                <<Tk("#[holder(use_place_holder)]"), Tk("#[holder(field ="),
                  entity.subtypes[i].name, Tk(")]")>>
                \o type_ref_to_tokens(entity.subtypes[i])
                \o <<Tk("("), Tk("Box"), Tk("<")>>
                \o type_ref_to_tokens(entity.subtypes[i])
                \o <<Tk(">"), Tk(")")>>], Tk(","))
         \o <<Tk("}")>>

into_any_impl(entity, ty) ==
    LET name == IF entity.subtypes = <<>> THEN to_pascal_case(entity.name)
                ELSE AnyIdent(entity.name)
        any_enum == AnyIdent(ty.name)
    IN  <<Tk("impl"), Tk("Into"), Tk("<"), any_enum, Tk(">"), Tk("for"), name,
          Tk("{"), Tk("fn"), Tk("into"), Tk("("), Tk("self"), Tk(")"),
          Tk("->"), any_enum, Tk("{"), any_enum, Tk("::"), name, Tk("("),
          Tk("Box"), Tk("::"), Tk("new"), Tk("("), Tk("self"), Tk(")"),
          Tk(")"), Tk("}"), Tk("}")>>

generate_into_any(entity) ==
    Flatten([i \in 1..Len(entity.supertypes) |->
                IF entity.supertypes[i].tag = "Entity"
                       /\ entity.supertypes[i].is_supertype
                THEN into_any_impl(entity, entity.supertypes[i])
                ELSE <<>>])

entity_to_tokens(entity) ==
    <<Tk("#[derive(Debug, Clone, PartialEq, ::derive_new::new, Holder)]"),
      Tk("#[holder(table = Tables)]"),
      Tk("#[holder(field ="), entity.name, Tk(")]"),
      Tk("#[holder(generate_deserialize)]"),
      Tk("pub"), Tk("struct"), to_pascal_case(entity.name), Tk("{")>>
    \o supertype_attributes(entity)
    \o Separated([i \in 1..Len(entity.attributes) |->
                     attribute_to_tokens(entity.attributes[i])], Tk(","))
    \o <<Tk("}")>>
    \o generate_any_def(entity)
    \o generate_into_any(entity)

entities_to_tokens(entities) ==
    Flatten([i \in 1..Len(entities) |-> entity_to_tokens(entities[i])])


(* The legalized IRs handed to the generator: entity i is a subtype of some *)
(* of the entities before it, and each parent lists it among its subtypes   *)
MaxEntities == 2

EntityNames == <<<<"p">>, <<"s", "u", "b">>, <<"a", "_", "b">>, <<"q">>, <<"u">>>>

Real64 == SimpleType("REAL")

AttrX == EntityAttribute(<<"x">>, Real64, FALSE)
AttrY == EntityAttribute(<<"y">>, Real64, TRUE)
AttrR == EntityAttribute(<<"r">>, TypeRefEntity(EntityNames[1], FALSE), FALSE)
AttrO == EntityAttribute(<<"o">>, TypeRefEntity(EntityNames[1], FALSE), TRUE)

AttrLists ==
    {<<>>, <<AttrX>>, <<AttrX, AttrY>>, <<AttrY, AttrX>>, <<AttrR, AttrO>>,
     <<AttrO>>}

ParentLists(i) ==
    {ps \in UNION {[1..k -> 1..(i - 1)] : k \in 0..(i - 1)} :
        \A a, b \in 1..Len(ps) : ps[a] = ps[b] => a = b}

SubtypesOf(n, parents, p) ==
    LET js == SelectSeq([j \in 1..n |-> j],
                        LAMBDA j : \E k \in 1..Len(parents[j]) : parents[j][k] = p)
    IN  [k \in 1..Len(js) |-> TypeRefEntity(EntityNames[js[k]], FALSE)]

IrSchema(n, parents, flagged, attrs) ==
    [name |-> "s",
     entities |-> [i \in 1..n |->
        IrEntity(EntityNames[i], attrs[i], SubtypesOf(n, parents, i),
                 [k \in 1..Len(parents[i]) |->
                     TypeRefEntity(EntityNames[parents[i][k]],
                                   parents[i][k] \in flagged)])]]

RECURSIVE ParentAssignments(_)
ParentAssignments(n) ==
    IF n = 0 THEN {<<>>}
    ELSE {Append(f, ps) : f \in ParentAssignments(n - 1), ps \in ParentLists(n)}

IsParent(n, parents, p) ==
    \E j \in 1..n : \E k \in 1..Len(parents[j]) : parents[j][k] = p

IrSchemas ==
    UNION {UNION {{IrSchema(n, parents, flagged, attrs) :
                      flagged \in SUBSET {p \in 1..n : IsParent(n, parents, p)},
                      attrs \in [1..n -> AttrLists]} :
                  parents \in ParentAssignments(n)} : n \in 1..MaxEntities}

InitCodegen ==
    /\ input = <<>>
    /\ op = "none"
    /\ result = NoResult
    /\ st = NoTree
    /\ schema \in IrSchemas
    /\ ns = <<>>
    /\ query = NoTree
    /\ NoDictionary

ToTokens ==
    /\ op = "none"
    /\ op' = "to_tokens"
    /\ result' = Ok(<<>>, entities_to_tokens(schema.entities))
    /\ UNCHANGED <<input, st, ns, schema, query>>
    /\ UNCHANGED dictVars

NextCodegen == ToTokens

SpecCodegen == InitCodegen /\ [][NextCodegen]_vars

(* Reading the generated items back from the token stream *)
RECURSIVE SplitOn(_, _)
SplitOn(ts, sep) ==
    IF ts = <<>> THEN <<>>
    ELSE LET n == SpanLenNot(ts, sep)
         IN  <<Take(ts, n)>> \o SplitOn(Drop(ts, n + 1), sep)

HolderAttribute == Tk("#[holder(use_place_holder)]")

FieldOf(chunk) ==
    LET c == IF chunk # <<>> /\ Head(chunk) = HolderAttribute
             THEN Tail(chunk) ELSE chunk
        ty == Drop(c, 3)
    IN  IF /\ Len(c) >= 4 /\ c[1] = Tk("pub") /\ c[3] = Tk(":")
           /\ \/ Len(ty) = 1
              \/ Len(ty) = 4 /\ ty[1] = Tk("Option") /\ ty[2] = Tk("<")
                             /\ ty[4] = Tk(">")
        THEN [name |-> c[2], ty |-> ty]
        ELSE [name |-> <<>>, ty |-> <<>>]

StructFields(ts, name) ==
    LET at == CHOOSE k \in 1..(Len(ts) - 3) :
                  /\ ts[k] = Tk("pub") /\ ts[k + 1] = Tk("struct")
                  /\ ts[k + 2] = name /\ ts[k + 3] = Tk("{")
        inner == Drop(ts, at + 3)
        chunks == SplitOn(Take(inner, SpanLenNot(inner, Tk("}"))), Tk(","))
    IN  [k \in 1..Len(chunks) |-> FieldOf(chunks[k])]

EnumsEmitted(ts) ==
    {ts[k + 2] : k \in {j \in 1..(Len(ts) - 2) :
                           ts[j] = Tk("pub") /\ ts[j + 1] = Tk("enum")}}

IntoImpls(ts) ==
    {[any_enum |-> ts[k + 3], for |-> ts[k + 6]] :
        k \in {j \in 1..(Len(ts) - 6) :
                  /\ ts[j] = Tk("impl") /\ ts[j + 1] = Tk("Into")
                  /\ ts[j + 2] = Tk("<") /\ ts[j + 4] = Tk(">")
                  /\ ts[j + 5] = Tk("for")}}

TypeNameOf(ty) ==
    IF ty.tag = "Simple" THEN Tk("f64") ELSE to_pascal_case(ty.name)

DeclaredFields(entity) ==
    [k \in 1..Len(entity.supertypes) |->
        [name |-> entity.supertypes[k].name,
         ty |-> <<TypeNameOf(entity.supertypes[k])>>]]
    \o [k \in 1..Len(entity.attributes) |->
        [name |-> entity.attributes[k].name,
         ty |-> IF entity.attributes[k].optional
                THEN <<Tk("Option"), Tk("<"),
                       TypeNameOf(entity.attributes[k].ty), Tk(">")>>
                ELSE <<TypeNameOf(entity.attributes[k].ty)>>]]

\* C21: the struct generated for an entity has one field per entry of its
\* supertypes list, named after the supertype and typed as a reference to it,
\* followed by the entity's own attributes in declaration order and nothing
\* else (no attribute of a supertype is copied); an optional attribute has
\* type Option<T>, a non-optional one type T.
C21_StructFields ==
    op = "to_tokens" =>
        \A i \in 1..Len(schema.entities) :
            StructFields(result.value, to_pascal_case(schema.entities[i].name))
                = DeclaredFields(schema.entities[i])

\* C22: from an IR that satisfies supertype closure, every
\* impl Into<PAny> for X emitted for a flagged supertype P of an entity names
\* an enum PAny that the generator emits, and the enum of an entity is
\* emitted exactly when its subtypes list is non-empty.
C22_IntoRefersToEmittedEnum ==
    op = "to_tokens" =>
        /\ \A imp \in IntoImpls(result.value) :
               imp.any_enum \in EnumsEmitted(result.value)
        /\ \A i \in 1..Len(schema.entities) :
               /\ AnyIdent(schema.entities[i].name) \in EnumsEmitted(result.value)
                      <=> schema.entities[i].subtypes # <<>>
               /\ \A k \in 1..Len(schema.entities[i].supertypes) :
                      schema.entities[i].supertypes[k].is_supertype =>
                          \E imp \in IntoImpls(result.value) :
                              imp.any_enum
                                  = AnyIdent(schema.entities[i].supertypes[k].name)

C22_Witness ==
    /\ op = "to_tokens"
    /\ Len(schema.entities) = 2
    /\ schema.entities[2].supertypes = <<TypeRefEntity(EntityNames[1], TRUE)>>
    /\ IntoImpls(result.value)
           = {[any_enum |-> AnyIdent(EntityNames[1]),
               for |-> to_pascal_case(EntityNames[2])]}
    /\ EnumsEmitted(result.value) = {AnyIdent(EntityNames[1])}
====
